---------------------------- MODULE Spec2Model ----------------------------
(***************************************************************************)
(* Model of api/weekly.js: the serverless handler that authorizes a GET    *)
(* request, calls the upstream Responses API (primary model, one fallback  *)
(* model), extracts the generated text, parses and sanitizes it, and       *)
(* answers with a capped list of {url, title} articles.                    *)
(*                                                                         *)
(* One request is followed from entry to response.  The handler is async:  *)
(* every await (fetch, resp.text(), resp.json()) is a suspension point, so *)
(* each action runs the code from one await to the next.                   *)
(***************************************************************************)
EXTENDS Integers, Sequences, FiniteSets, TLC

VARIABLES
    env,      \* process.env: DEEP_TOKEN and OPENAI_API_KEY ("" = unset)
    req,      \* the inbound request: method, Authorization header, ?token=
    pc,       \* where the handler is suspended
    calls,    \* the outbound fetch() calls issued so far, in order
    data,     \* callOpenAI's local `data` (line 109)
    result,   \* the handler's local `result` (line 39)
    parsed,   \* the handler's local `parsed` (line 45)
    res,      \* the response written through `res`
    escaped   \* TRUE if an exception propagated out of handler()

vars == <<env, req, pc, calls, data, result, parsed, res, escaped>>

----------------------------------------------------------------------------
(* JavaScript values                                                       *)

\* An optional string: `def = FALSE` is JavaScript's undefined.
Undefined == [def |-> FALSE, s |-> ""]
Str(s) == [def |-> TRUE, s |-> s]

\* Truthiness of an optional string, as `||` tests it.
Truthy(o) == o.def /\ o.s # ""

\* a || b || "" on optional strings (lines 9-12, 111-114).
OrElse(a, b) == IF Truthy(a) THEN a ELSE b

\* String.prototype.startsWith
StartsWith(s, prefix) ==
    /\ Len(s) >= Len(prefix)
    /\ SubSeq(s, 1, Len(prefix)) = prefix

\* String.prototype.split(" "): the pieces between single spaces.
SplitSpace(s) ==
    LET RECURSIVE go(_, _, _)
        go(i, cur, acc) ==
            IF i > Len(s) THEN Append(acc, cur)
            ELSE IF SubSeq(s, i, i) = " " THEN go(i + 1, "", Append(acc, cur))
            ELSE go(i + 1, cur \o SubSeq(s, i, i), acc)
    IN  go(1, "", <<>>)

\* One character under the regular expression's i flag.
LowerChar(c) ==
    CASE c = "A" -> "a" [] c = "B" -> "b" [] c = "C" -> "c" [] c = "D" -> "d"
      [] c = "E" -> "e" [] c = "F" -> "f" [] c = "G" -> "g" [] c = "H" -> "h"
      [] c = "I" -> "i" [] c = "J" -> "j" [] c = "K" -> "k" [] c = "L" -> "l"
      [] c = "M" -> "m" [] c = "N" -> "n" [] c = "O" -> "o" [] c = "P" -> "p"
      [] c = "Q" -> "q" [] c = "R" -> "r" [] c = "S" -> "s" [] c = "T" -> "t"
      [] c = "U" -> "u" [] c = "V" -> "v" [] c = "W" -> "w" [] c = "X" -> "x"
      [] c = "Y" -> "y" [] c = "Z" -> "z" [] OTHER -> c

Lower(s) ==
    LET RECURSIVE go(_, _)
        go(i, acc) ==
            IF i > Len(s) THEN acc
            ELSE go(i + 1, acc \o LowerChar(SubSeq(s, i, i)))
    IN  go(1, "")

\* `sub` occurs in `s`, ignoring case.
ContainsIgnoreCase(s, sub) ==
    LET l == Lower(s)
    IN  \E i \in 1..(Len(l) - Len(sub) + 1) :
            SubSeq(l, i, i + Len(sub) - 1) = sub

\* Error.prototype.toString, which String(e) calls (line 64).
ErrorToString(e) ==
    IF e.message = "" THEN e.name ELSE e.name \o ": " \o e.message

----------------------------------------------------------------------------
(* Upstream texts and JSON values                                          *)

\* A text field of the upstream response body.  `def = FALSE` is a missing
\* field.  A text whose `s` is ArticlesDoc stands for the JSON text
\* {"articles":[e1,...,en]} with e1..en the entries in `items`; any other
\* text is the literal string `s`.
ArticlesDoc == "{\"articles\":[...]}"
NoText == [def |-> FALSE, s |-> "", items |-> <<>>]
JsText(s) == [def |-> TRUE, s |-> s, items |-> <<>>]
ArticlesText(items) == [def |-> TRUE, s |-> ArticlesDoc, items |-> items]

\* A property of a parsed JSON object: its JavaScript type and, for a
\* string, its value.  t = "undefined" is a missing property.
NoProp == [t |-> "undefined", s |-> ""]
StrProp(s) == [t |-> "string", s |-> s]
NumProp == [t |-> "number", s |-> ""]
NullProp == [t |-> "null", s |-> ""]

\* An entry of the articles array: t is "object", "null", "string" (a
\* non-empty string) or "number" (a non-zero number).
ObjEntry(url, title) == [t |-> "object", url |-> url, title |-> title]
PrimEntry(t) == [t |-> t, url |-> NoProp, title |-> NoProp]

\* A parsed JSON value, as far as the handler looks into it: its type and
\* its `articles` member (type; items when it is an array).
NoMember == [t |-> "undefined", items |-> <<>>]
JsValue(t) == [t |-> t, articles |-> NoMember]
JsObject(member) == [t |-> "object", articles |-> member]
ArrayMember(items) == [t |-> "array", items |-> items]
OtherMember(t) == [t |-> t, items |-> <<>>]

\* The literal texts the upstream is made to return, with what JSON.parse
\* does on each.
ValidLiterals ==
    { "{}", "null", "42", "true", "\"just a string\"", "[1,2]",
      "{\"articles\":5}", "{\"articles\":null}", "{\"articles\":\"none\"}",
      "{\"articles\":{\"url\":\"http://a.example\"}}", "{\"items\":[]}" }
InvalidLiterals ==
    { "Sorry, I could not find anything.", "{articles: []}",
      "{\"articles\":[", "Here it is: {\"articles\":[]}" }
Literals == ValidLiterals \cup InvalidLiterals

\* JSON.parse (line 47): the value, or a SyntaxError.
JSONParse(text) ==
    IF text.s = ArticlesDoc
    THEN [threw |-> FALSE, value |-> JsObject(ArrayMember(text.items))]
    ELSE IF text.s \in InvalidLiterals
    THEN [threw |-> TRUE, value |-> JsValue("undefined")]
    ELSE [threw |-> FALSE, value |->
            CASE text.s = "{}" -> JsObject(NoMember)
              [] text.s = "null" -> JsValue("null")
              [] text.s = "42" -> JsValue("number")
              [] text.s = "true" -> JsValue("boolean")
              [] text.s = "\"just a string\"" -> JsValue("string")
              [] text.s = "[1,2]" -> JsValue("array")
              [] text.s = "{\"articles\":5}" -> JsObject(OtherMember("number"))
              [] text.s = "{\"articles\":null}" -> JsObject(OtherMember("null"))
              [] text.s = "{\"articles\":\"none\"}" -> JsObject(OtherMember("string"))
              [] text.s = "{\"articles\":{\"url\":\"http://a.example\"}}"
                    -> JsObject(OtherMember("object"))
              [] text.s = "{\"items\":[]}" -> JsObject(NoMember)]

----------------------------------------------------------------------------
(* callOpenAI: text extraction (lines 109-116)                             *)

\* data?.output?.[0]?.content?.[0]?.text
NestedText(d) ==
    IF d.isNull \/ ~d.output.def \/ Len(d.output.items) = 0
    THEN NoText
    ELSE LET item == d.output.items[1]
         IN  IF ~item.content.def \/ Len(item.content.items) = 0
             THEN NoText
             ELSE item.content.items[1].text

\* data?.output_text
TopLevelText(d) == IF d.isNull THEN NoText ELSE d.output_text

\* const text = data?.output_text || data?.output?.[0]?.content?.[0]?.text || "{}"
ExtractText(d) ==
    OrElse(TopLevelText(d), OrElse(NestedText(d), JsText("{}")))

----------------------------------------------------------------------------
(* handler: parse, sanitize, cap (lines 44-62)                             *)

\* .slice(0, 50)
MaxArticlesOut == 50

\* try { parsed = JSON.parse(result.text) } catch { parsed = {articles: []} }
ParseOrDefault(text) ==
    LET r == JSONParse(text)
    IN  IF r.threw THEN JsObject(ArrayMember(<<>>)) ELSE r.value

\* Reading `parsed.articles` throws a TypeError when parsed is null.
ReadArticlesThrows(p) == p.t = "null"

\* Array.isArray(parsed.articles) ? parsed.articles : []
ArticlesOf(p) == IF p.articles.t = "array" THEN p.articles.items ELSE <<>>

\* a.url / a.title: a property read on a primitive gives undefined.
UrlOf(a) == IF a.t = "object" THEN a.url ELSE NoProp
TitleOf(a) == IF a.t = "object" THEN a.title ELSE NoProp

\* a => a && typeof a.url === "string" && a.url.startsWith("http")
KeepArticle(a) ==
    /\ a.t # "null"
    /\ UrlOf(a).t = "string"
    /\ StartsWith(UrlOf(a).s, "http")

\* a => ({ url: a.url, title: typeof a.title === "string" ? a.title : "" })
MapArticle(a) ==
    [url |-> UrlOf(a).s,
     title |-> IF TitleOf(a).t = "string" THEN TitleOf(a).s ELSE ""]

\* Fault variant: the list is cut to 50 before it is filtered.
CleanCutFirst(articles) ==
    LET cut == SubSeq(articles, 1, IF Len(articles) < MaxArticlesOut
                                   THEN Len(articles) ELSE MaxArticlesOut)
        kept == SelectSeq(cut, KeepArticle)
    IN  [i \in 1..Len(kept) |-> MapArticle(kept[i])]

\* articles.filter(...).map(...).slice(0, 50)
Clean(articles) ==
    LET kept == SelectSeq(articles, KeepArticle)
        mapped == [i \in 1..Len(kept) |-> MapArticle(kept[i])]
    IN  SubSeq(mapped, 1, IF Len(mapped) < MaxArticlesOut
                          THEN Len(mapped) ELSE MaxArticlesOut)

----------------------------------------------------------------------------
(* handler: responses (lines 6, 15, 41, 62, 64)                            *)

NoResponse ==
    [status |-> 0, allow |-> "", error |-> "", hasDetail |-> FALSE,
     detail |-> "", hasArticles |-> FALSE, articles |-> <<>>]

\* res.setHeader("Allow", "GET"); res.status(405).json({error: ...})
MethodNotAllowedResponse ==
    [NoResponse EXCEPT !.status = 405, !.allow = "GET",
                       !.error = "Method Not Allowed"]

\* res.status(401).json({ error: "Unauthorized" })
UnauthorizedResponse ==
    [NoResponse EXCEPT !.status = 401, !.error = "Unauthorized"]

\* res.status(502).json({ error: "OpenAI call failed", detail: result.detail })
UpstreamFailedResponse(detail) ==
    [NoResponse EXCEPT !.status = 502, !.error = "OpenAI call failed",
                       !.hasDetail = TRUE, !.detail = detail]

\* res.status(200).json({ articles: clean })
ArticlesResponse(clean) ==
    [NoResponse EXCEPT !.status = 200, !.hasArticles = TRUE,
                       !.articles = clean]

\* Fault variant: the detail is e.message instead of String(e).
ServerErrorResponseMessageOnly(e) ==
    [NoResponse EXCEPT !.status = 500, !.error = "Server error",
                       !.hasDetail = TRUE, !.detail = e.message]

\* catch (e) { res.status(500).json({error: "Server error", detail: String(e)}) }
ServerErrorResponse(e) ==
    [NoResponse EXCEPT !.status = 500, !.error = "Server error",
                       !.hasDetail = TRUE, !.detail = ErrorToString(e)]

\* The TypeError of reading a property of null (line 53).
NullReadError ==
    [name |-> "TypeError",
     message |-> "Cannot read properties of null (reading 'articles')"]

\* Lines 44-65 on a successful result: parse, sanitize, cap, respond; an
\* exception on the way is caught at line 63.
RespondToText(text) ==
    LET p == ParseOrDefault(text)
    IN  IF ReadArticlesThrows(p)
        THEN ServerErrorResponse(NullReadError)
        ELSE ArticlesResponse(Clean(ArticlesOf(p)))

----------------------------------------------------------------------------
(* handler: method and authorization (lines 4-16)                          *)

\* Fault variant: only POST is refused.
MethodNotAllowedOnlyPost(r) == r.method = "POST"

\* req.method !== "GET"
MethodNotAllowed(r) == r.method # "GET"

\* req.headers.authorization?.split(" ")[1]
HeaderToken(r) ==
    IF ~r.authorization.def THEN Undefined
    ELSE LET parts == SplitSpace(r.authorization.s)
         IN  IF Len(parts) >= 2 THEN Str(parts[2]) ELSE Undefined

\* Fault variant: the query parameter is not consulted.
BearerHeaderOnly(r) == OrElse(HeaderToken(r), Str("")).s

\* const bearer = <header token> || req.query.token || ""
Bearer(r) == OrElse(HeaderToken(r), OrElse(r.token, Str(""))).s

\* Fault variant: a request without any token is let through.
UnauthorizedOnlyWithToken(required, bearer) ==
    required # "" /\ bearer # "" /\ bearer # required

\* REQUIRED && bearer !== REQUIRED
Unauthorized(required, bearer) == required # "" /\ bearer # required

----------------------------------------------------------------------------
(* callOpenAI (lines 69-117)                                               *)

PRIMARY_MODEL == "o3-deep-research-2025-06-26"
FALLBACK_MODEL == "gpt-4.1-mini"

MissingKeyDetail == "OPENAI_API_KEY missing in Vercel environment"

\* Fault variant: the key is not checked before the call.
MissingKeyUnchecked(key) == FALSE

\* if (!key)
MissingKey(key) == key = ""

\* Fault variant: the pattern without its i flag.
ModelIssueCaseSensitive(body) ==
    \E sub \in {"model", "not found", "permission"} :
        \E i \in 1..(Len(body) - Len(sub) + 1) :
            SubSeq(body, i, i + Len(sub) - 1) = sub

\* Fault variant: every failure is retried on the fallback model.
ModelIssueAnyFailure(body) == TRUE

\* /model|not found|permission/i.test(body)
ModelIssue(body) ==
    \/ ContainsIgnoreCase(body, "model")
    \/ ContainsIgnoreCase(body, "not found")
    \/ ContainsIgnoreCase(body, "permission")

\* One outbound fetch(endpoint, {method: "POST", headers, body}).
\*   state: "pending" until the fetch settles, then "ok" (resp.ok),
\*          "notok" (!resp.ok) or "threw" (the fetch rejected);
\*   read:  whether reading the response (resp.text() or resp.json())
\*          returned ("yes"), threw ("threw") or was not reached ("no");
\*   body:  the error body resp.text() returned;
\*   e:     what the fetch or the read rejected with.
NoError == [name |-> "", message |-> ""]
NewCall(model) ==
    [model |-> model, state |-> "pending", read |-> "no", body |-> "",
     e |-> NoError]

\* callOpenAI's return value; state "none" while it has not returned.
NoResult == [state |-> "none", detail |-> "", text |-> NoText]
FailedResult(detail) == [state |-> "failed", detail |-> detail, text |-> NoText]
OkResult(text) == [state |-> "ok", detail |-> "", text |-> text]

----------------------------------------------------------------------------
(* Inputs: configuration, requests, upstream behaviour                     *)

Envs == [DEEP_TOKEN : {"", "s3cret"}, OPENAI_API_KEY : {"", "sk-test"}]

Methods == {"GET", "POST", "HEAD"}
AuthHeaders ==
    { Undefined, Str("Bearer s3cret"), Str("Bearer s3cre"), Str("Bearer"),
      Str("Bearer "), Str("Basic s3cret"), Str("Bearer  s3cret") }
QueryTokens == { Undefined, Str(""), Str("s3cret"), Str("wrong") }
Requests ==
    [method : Methods, authorization : AuthHeaders, token : QueryTokens]
NoRequest == [method |-> "", authorization |-> Undefined, token |-> Undefined]

\* Error bodies of a non-ok upstream response.
ErrorBodies ==
    { "model not found", "The MODEL does not exist", "Permission denied",
      "404 Not Found", "Rate limit exceeded", "notfound", "" }

\* What fetch, resp.text() and resp.json() reject with.
FetchErrors ==
    { [name |-> "TypeError", message |-> "fetch failed"],
      [name |-> "AbortError", message |-> ""] }
ReadErrors == { [name |-> "TypeError", message |-> "terminated"] }
JsonErrors ==
    { [name |-> "SyntaxError", message |-> "Unexpected end of JSON input"] }

\* Article entries and short article lists of the upstream text.
GoodA == ObjEntry(StrProp("https://a.example/1"), StrProp("T1"))
BadUrlA == ObjEntry(StrProp("not-a-url"), StrProp("T2"))
NoTitleA == ObjEntry(StrProp("https://a.example/3"), NoProp)
ShortLists ==
    { <<>>, <<GoodA>>, <<GoodA, BadUrlA, NoTitleA>>,
      <<PrimEntry("null"), NoTitleA, PrimEntry("string"), GoodA>> }

Texts ==
    {JsText(l) : l \in Literals} \cup {ArticlesText(a) : a \in ShortLists}

\* Bodies of an ok upstream response, as resp.json() returns them.
NoOutput == [def |-> FALSE, items |-> <<>>]
Output(items) == [def |-> TRUE, items |-> items]
NoContentItem == [content |-> [def |-> FALSE, items |-> <<>>]]
Item(texts) ==
    [content |-> [def |-> TRUE,
                  items |-> [i \in 1..Len(texts) |-> [text |-> texts[i]]]]]
Data(top, output) == [isNull |-> FALSE, output_text |-> top, output |-> output]
NullData == [isNull |-> TRUE, output_text |-> NoText, output |-> NoOutput]

TextA == ArticlesText(<<GoodA>>)
TextB == ArticlesText(<<NoTitleA>>)
Outputs ==
    { NoOutput, Output(<<>>), Output(<<NoContentItem>>), Output(<<Item(<<>>)>>),
      Output(<<Item(<<NoText>>)>>), Output(<<Item(<<JsText("")>>)>>),
      Output(<<Item(<<TextA>>)>>), Output(<<Item(<<TextA, TextB>>)>>),
      Output(<<Item(<<TextA>>), Item(<<TextB>>)>>),
      Output(<<NoContentItem, Item(<<TextB>>)>>) }
Datas ==
    {NullData}
      \cup {Data(t, NoOutput) : t \in Texts}
      \cup {Data(t, o) : t \in {NoText, JsText(""), JsText("null")}, o \in Outputs}

----------------------------------------------------------------------------
(* The request, from entry to response                                     *)

Init ==
    /\ env \in Envs
    /\ req = NoRequest
    /\ pc = "idle"
    /\ calls = <<>>
    /\ data = NullData
    /\ result = NoResult
    /\ parsed = JsValue("undefined")
    /\ res = NoResponse
    /\ escaped = FALSE

\* The try/catch of lines 38-65: an exception thrown inside it ends the
\* request with the 500 response and does not leave the handler.
Catch(e) ==
    /\ res' = ServerErrorResponse(e)
    /\ escaped' = FALSE
    /\ pc' = "done"

\* handler returns a response other than through the catch.
Return(response) ==
    /\ res' = response
    /\ escaped' = FALSE
    /\ pc' = "done"

\* The last call's fetch settles; its response is read.
Settle(state) == [calls EXCEPT ![Len(calls)].state = state]
FetchThrew(e) ==
    [calls EXCEPT ![Len(calls)].state = "threw", ![Len(calls)].e = e]
ReadBody(b) ==
    [calls EXCEPT ![Len(calls)].read = "yes", ![Len(calls)].body = b]
ReadThrew(e) ==
    [calls EXCEPT ![Len(calls)].read = "threw", ![Len(calls)].e = e]

\* Lines 2-39 and 69-89: the handler runs from entry to its first await,
\* the primary fetch, or answers before reaching it.
Handler ==
    /\ pc = "idle"
    /\ \E r \in Requests :
        /\ req' = r
        /\ IF MethodNotAllowed(r)
           THEN /\ Return(MethodNotAllowedResponse)
                /\ UNCHANGED <<calls, result>>
           ELSE IF Unauthorized(env.DEEP_TOKEN, Bearer(r))
           THEN /\ Return(UnauthorizedResponse)
                /\ UNCHANGED <<calls, result>>
           ELSE IF MissingKey(env.OPENAI_API_KEY)
           THEN /\ result' = FailedResult(MissingKeyDetail)
                /\ Return(UpstreamFailedResponse(MissingKeyDetail))
                /\ UNCHANGED calls
           ELSE /\ calls' = <<NewCall(PRIMARY_MODEL)>>
                /\ pc' = "primaryFetch"
                /\ UNCHANGED <<result, res, escaped>>
    /\ UNCHANGED <<env, data, parsed>>

\* How a fetch settles: it rejects with e, or resolves with resp.ok or not.
FetchOutcomes ==
    {[kind |-> k, e |-> NoError] : k \in {"ok", "notok"}}
      \cup {[kind |-> "throw", e |-> e] : e \in FetchErrors}

\* How resp.text() settles: it rejects with e, or resolves with the body.
TextOutcomes ==
    {[kind |-> "body", e |-> NoError, body |-> b] : b \in ErrorBodies}
      \cup {[kind |-> "throw", e |-> e, body |-> ""] : e \in ReadErrors}

\* How resp.json() settles: it rejects with e, or resolves with the data.
JsonOutcomes ==
    {[kind |-> "data", e |-> NoError, data |-> d] : d \in Datas}
      \cup {[kind |-> "throw", e |-> e, data |-> NullData] : e \in JsonErrors}

\* Line 89 resumes: the primary fetch rejects, or resolves ok or not ok.
PrimaryFetchSettles ==
    /\ pc = "primaryFetch"
    /\ \E o \in FetchOutcomes :
        IF o.kind = "throw"
        THEN /\ calls' = FetchThrew(o.e)
             /\ Catch(o.e)
        ELSE /\ calls' = Settle(o.kind)
             /\ pc' = IF o.kind = "ok" THEN "json" ELSE "primaryText"
             /\ UNCHANGED <<res, escaped>>
    /\ UNCHANGED <<env, req, data, result, parsed>>

\* Lines 92-106 and 40-42: the primary error body is read; a model or
\* permission issue starts the fallback fetch, any other body is the
\* failure's detail.
PrimaryTextSettles ==
    /\ pc = "primaryText"
    /\ \E o \in TextOutcomes :
        IF o.kind = "throw"
        THEN /\ calls' = ReadThrew(o.e)
             /\ Catch(o.e)
             /\ UNCHANGED result
        ELSE IF ModelIssue(o.body)
        THEN /\ calls' = Append(ReadBody(o.body), NewCall(FALLBACK_MODEL))
             /\ pc' = "fallbackFetch"
             /\ UNCHANGED <<result, res, escaped>>
        ELSE /\ calls' = ReadBody(o.body)
             /\ result' = FailedResult(o.body)
             /\ Return(UpstreamFailedResponse(o.body))
    /\ UNCHANGED <<env, req, data, parsed>>

\* Line 100 resumes: the fallback fetch rejects, or resolves ok or not ok.
FallbackFetchSettles ==
    /\ pc = "fallbackFetch"
    /\ \E o \in FetchOutcomes :
        IF o.kind = "throw"
        THEN /\ calls' = FetchThrew(o.e)
             /\ Catch(o.e)
        ELSE /\ calls' = Settle(o.kind)
             /\ pc' = IF o.kind = "ok" THEN "json" ELSE "fallbackText"
             /\ UNCHANGED <<res, escaped>>
    /\ UNCHANGED <<env, req, data, result, parsed>>

\* Lines 102 and 40-42: the fallback error body is the failure's detail.
FallbackTextSettles ==
    /\ pc = "fallbackText"
    /\ \E o \in TextOutcomes :
        IF o.kind = "throw"
        THEN /\ calls' = ReadThrew(o.e)
             /\ Catch(o.e)
             /\ UNCHANGED result
        ELSE /\ calls' = ReadBody(o.body)
             /\ result' = FailedResult(o.body)
             /\ Return(UpstreamFailedResponse(o.body))
    /\ UNCHANGED <<env, req, data, parsed>>

\* Lines 109-116 and 40-65: the ok response's body is read, the text is
\* extracted, parsed, sanitized and capped, and the handler answers.
JsonSettles ==
    /\ pc = "json"
    /\ \E o \in JsonOutcomes :
        IF o.kind = "throw"
        THEN /\ calls' = ReadThrew(o.e)
             /\ Catch(o.e)
             /\ UNCHANGED <<data, result, parsed>>
        ELSE /\ calls' = ReadBody("")
             /\ data' = o.data
             /\ result' = OkResult(ExtractText(o.data))
             /\ parsed' = ParseOrDefault(ExtractText(o.data))
             /\ Return(RespondToText(ExtractText(o.data)))
    /\ UNCHANGED <<env, req>>

Next ==
    \/ Handler
    \/ PrimaryFetchSettles
    \/ PrimaryTextSettles
    \/ FallbackFetchSettles
    \/ FallbackTextSettles
    \/ JsonSettles

Spec == Init /\ [][Next]_vars

----------------------------------------------------------------------------
(* Sanitizing long article lists: lines 44-62 applied to generated texts   *)

\* The longest generated articles array.
MaxArticles == 60

\* Number.prototype.toString for a natural number.
RECURSIVE NumStr(_)
NumStr(n) ==
    IF n < 10 THEN SubSeq("0123456789", n + 1, n + 1)
    ELSE NumStr(n \div 10) \o SubSeq("0123456789", (n % 10) + 1, (n % 10) + 1)

\* The i-th entry of a generated array, of the given kind.
EntryKinds ==
    { "good", "http", "notitle", "numtitle", "nulltitle",
      "null", "string", "number", "nourl", "numurl", "nullurl",
      "ftp", "upper", "short", "relative" }
EntryOfKind(k, i) ==
    CASE k = "good" ->
            ObjEntry(StrProp("https://a.example/" \o NumStr(i)),
                     StrProp("Title " \o NumStr(i)))
      [] k = "http" ->
            ObjEntry(StrProp("http" \o NumStr(i)), StrProp(""))
      [] k = "notitle" ->
            ObjEntry(StrProp("http://b.example/" \o NumStr(i)), NoProp)
      [] k = "numtitle" ->
            ObjEntry(StrProp("https://c.example/" \o NumStr(i)), NumProp)
      [] k = "nulltitle" ->
            ObjEntry(StrProp("https://d.example/" \o NumStr(i)), NullProp)
      [] k = "null" -> PrimEntry("null")
      [] k = "string" -> PrimEntry("string")
      [] k = "number" -> PrimEntry("number")
      [] k = "nourl" -> ObjEntry(NoProp, StrProp("Title " \o NumStr(i)))
      [] k = "numurl" -> ObjEntry(NumProp, StrProp("Title " \o NumStr(i)))
      [] k = "nullurl" -> ObjEntry(NullProp, StrProp("Title " \o NumStr(i)))
      [] k = "ftp" ->
            ObjEntry(StrProp("ftp://e.example/" \o NumStr(i)), StrProp("T"))
      [] k = "upper" ->
            ObjEntry(StrProp("HTTPS://F.EXAMPLE/" \o NumStr(i)), StrProp("T"))
      [] k = "short" -> ObjEntry(StrProp("htt"), StrProp("T"))
      [] k = "relative" ->
            ObjEntry(StrProp("/http/" \o NumStr(i)), StrProp("T"))

\* A generated array of n entries: every p-th entry is of kind `other`,
\* the rest of kind `usual`.
UsualKinds == {"good", "notitle", "numtitle", "ftp"}
Periods == {1, 2, 7}
GeneratedList(n, p, usual, other) ==
    [i \in 1..n |-> EntryOfKind(IF i % p = 0 THEN other ELSE usual, i)]
GeneratedLists ==
    { GeneratedList(n, p, usual, other) :
        n \in 0..MaxArticles, p \in Periods,
        usual \in UsualKinds, other \in EntryKinds }

\* callOpenAI has returned {ok: true, text} with a generated articles text.
InitSanitize ==
    /\ env = [DEEP_TOKEN |-> "", OPENAI_API_KEY |-> "sk-test"]
    /\ req = NoRequest
    /\ pc = "result"
    /\ calls = <<>>
    /\ data = NullData
    /\ result \in {OkResult(ArticlesText(l)) : l \in GeneratedLists}
    /\ parsed = JsValue("undefined")
    /\ res = NoResponse
    /\ escaped = FALSE

\* Lines 44-65 on the returned text.
HandleResult ==
    /\ pc = "result"
    /\ parsed' = ParseOrDefault(result.text)
    /\ Return(RespondToText(result.text))
    /\ UNCHANGED <<env, req, calls, data, result>>

NextSanitize == HandleResult

SpecSanitize == InitSanitize /\ [][NextSanitize]_vars

----------------------------------------------------------------------------
(* Properties                                                              *)

\* The request has been answered.
Done == pc = "done"

\* The request passed the method and authorization checks of lines 4-16.
PassedChecks ==
    /\ pc # "idle"
    /\ ~MethodNotAllowed(req)
    /\ ~Unauthorized(env.DEEP_TOKEN, Bearer(req))

\* The Authorization header is exactly "Bearer <secret>".
BearerHeaderIs(secret) ==
    req.authorization.def /\ req.authorization.s = "Bearer " \o secret

\* The query parameter token is exactly the secret.
QueryTokenIs(secret) == req.token.def /\ req.token.s = secret

\* Neither token source carries the secret: the query parameter is not it,
\* and no space-separated word of the Authorization header is it.
NoSourceCarries(secret) ==
    /\ ~QueryTokenIs(secret)
    /\ \/ ~req.authorization.def
       \/ \A i \in 1..Len(SplitSpace(req.authorization.s)) :
              SplitSpace(req.authorization.s)[i] # secret

\* The Authorization header carries no token: it is absent, has no space,
\* or nothing but the end or another space follows its first space.
HeaderCarriesNoToken ==
    \/ ~req.authorization.def
    \/ LET h == req.authorization.s
           spaces == {i \in 1..Len(h) : SubSeq(h, i, i) = " "}
       IN  \/ spaces = {}
           \/ LET first == CHOOSE i \in spaces : \A j \in spaces : i <= j
              IN  first = Len(h) \/ SubSeq(h, first + 1, first + 1) = " "

\* C4: a GET request that supplies no token, or only tokens other than
\* the configured non-empty DEEP_TOKEN, is answered 401 with the body
\* {"error":"Unauthorized"}, and no outbound call is made for it.
C4_MismatchIs401 ==
    (/\ Done
     /\ req.method = "GET"
     /\ env.DEEP_TOKEN # ""
     /\ NoSourceCarries(env.DEEP_TOKEN))
    => /\ res = UnauthorizedResponse
       /\ res.status = 401 /\ res.error = "Unauthorized"
       /\ ~res.hasDetail /\ ~res.hasArticles
       /\ calls = <<>>

\* C4 happens: a request with a wrong header token and a wrong query token
\* was answered 401.
C4_Witness ==
    /\ Done
    /\ req.method = "GET"
    /\ env.DEEP_TOKEN = "s3cret"
    /\ req.authorization = Str("Bearer s3cre")
    /\ req.token = Str("wrong")
    /\ res.status = 401

\* C5 as stated: with DEEP_TOKEN set, a GET request carrying the matching
\* token in the Bearer header or in the query parameter is never answered
\* 401, whatever the other source contains.
C5_EitherSourcePasses ==
    (/\ pc # "idle"
     /\ req.method = "GET"
     /\ env.DEEP_TOKEN # ""
     /\ BearerHeaderIs(env.DEEP_TOKEN) \/ QueryTokenIs(env.DEEP_TOKEN))
    => res.status # 401

\* C5 amended: with DEEP_TOKEN set, a GET request is never answered 401 if
\* its Authorization header is "Bearer <DEEP_TOKEN>" (whatever the query
\* parameter is), or if its query parameter is DEEP_TOKEN and the
\* Authorization header carries no token.
C5_HeaderFirstPasses ==
    (/\ pc # "idle"
     /\ req.method = "GET"
     /\ env.DEEP_TOKEN # ""
     /\ \/ BearerHeaderIs(env.DEEP_TOKEN)
        \/ QueryTokenIs(env.DEEP_TOKEN) /\ HeaderCarriesNoToken)
    => /\ res.status # 401
       /\ Done /\ ~MissingKey(env.OPENAI_API_KEY) => calls # <<>>

\* C5 happens: the query parameter alone carried the token, next to a
\* header without one, and the upstream call was made.
C5_Witness ==
    /\ env.DEEP_TOKEN = "s3cret"
    /\ req.method = "GET"
    /\ req.authorization = Str("Bearer ")
    /\ req.token = Str("s3cret")
    /\ Len(calls) = 1
    /\ res.status # 401

\* C6: a request whose method is not GET is answered 405 with the header
\* Allow: GET and the body {"error":"Method Not Allowed"}, whatever the
\* token configuration and the supplied tokens are; it is never answered
\* 401 and no outbound call is made for it.
C6_NonGetIs405 ==
    (pc # "idle" /\ req.method # "GET")
    => /\ Done
       /\ res.status = 405
       /\ res.allow = "GET"
       /\ res.error = "Method Not Allowed"
       /\ ~res.hasDetail /\ ~res.hasArticles
       /\ calls = <<>>

\* C6 happens: a non-GET request without the required token was answered.
C6_Witness ==
    /\ Done
    /\ req.method = "HEAD"
    /\ env.DEEP_TOKEN = "s3cret"
    /\ req.authorization = Undefined
    /\ req.token = Str("wrong")
    /\ res.status = 405

\* C8: an authorized GET request with OPENAI_API_KEY absent or empty is
\* answered 502 with error "OpenAI call failed" and a detail that says the
\* key is missing, and no outbound call is issued.
C8_MissingKeyIs502 ==
    (PassedChecks /\ env.OPENAI_API_KEY = "")
    => /\ Done
       /\ res.status = 502
       /\ res.error = "OpenAI call failed"
       /\ res.hasDetail
       /\ ContainsIgnoreCase(res.detail, "openai_api_key missing")
       /\ calls = <<>>

\* C8 happens: a request that had to present the token, and did, met the
\* missing key.
C8_Witness ==
    /\ Done
    /\ env.OPENAI_API_KEY = ""
    /\ env.DEEP_TOKEN = "s3cret"
    /\ req.method = "GET"
    /\ req.authorization = Str("Bearer s3cret")
    /\ res.status = 502

\* The error bodies that contain "model", "not found" or "permission" in
\* any letter case, and those that do not.
MatchingBodies ==
    { "model not found", "The MODEL does not exist", "Permission denied",
      "404 Not Found" }
OtherBodies == { "Rate limit exceeded", "notfound", "" }

\* Call i resolved not ok and its error body was read.
FailedWithBody(i) ==
    /\ Len(calls) >= i
    /\ calls[i].state = "notok"
    /\ calls[i].read = "yes"

\* C1: once the primary call has completed not ok with an error body
\* that matches the model/permission pattern, exactly one more call, to
\* the fallback model, has been issued; a second call exists only after the
\* primary call completed that way; there is never a third call; and when
\* the fallback call completes not ok too, the answer is 502 with the
\* fallback call's error body as detail.
C1_OneFallbackCall ==
    /\ Len(calls) <= 2
    /\ Len(calls) >= 1 => calls[1].model = PRIMARY_MODEL
    /\ (FailedWithBody(1) /\ calls[1].body \in MatchingBodies)
       => Len(calls) = 2 /\ calls[2].model = FALLBACK_MODEL
    /\ Len(calls) = 2
       => FailedWithBody(1) /\ calls[1].body \in MatchingBodies
    /\ FailedWithBody(2)
       => /\ Done
          /\ res.status = 502
          /\ res.error = "OpenAI call failed"
          /\ res.hasDetail
          /\ res.detail = calls[2].body

\* C1 happens: both calls failed, with different error bodies, and the
\* request was answered.
C1_Witness ==
    /\ Done
    /\ FailedWithBody(1) /\ calls[1].body = "The MODEL does not exist"
    /\ FailedWithBody(2) /\ calls[2].body = "Rate limit exceeded"
    /\ res.status = 502
    /\ res.detail = "Rate limit exceeded"

\* C2: when the primary call completes not ok with an error body that
\* does not match the model/permission pattern, it stays the only outbound
\* call and the answer is 502 with that body as detail.
C2_NoFallbackOnOtherFailure ==
    (FailedWithBody(1) /\ calls[1].body \in OtherBodies)
    => /\ Len(calls) = 1
       /\ Done
       /\ res.status = 502
       /\ res.error = "OpenAI call failed"
       /\ res.hasDetail
       /\ res.detail = calls[1].body

\* C2 happens: the primary call failed with a near miss of the pattern.
C2_Witness ==
    /\ Done
    /\ FailedWithBody(1) /\ calls[1].body = "notfound"
    /\ Len(calls) = 1
    /\ res.status = 502
    /\ res.detail = "notfound"

\* String(e) of the exceptions the upstream calls reject with.
Stringified(e) ==
    CASE e = [name |-> "TypeError", message |-> "fetch failed"]
            -> "TypeError: fetch failed"
      [] e = [name |-> "AbortError", message |-> ""]
            -> "AbortError"
      [] e = [name |-> "TypeError", message |-> "terminated"]
            -> "TypeError: terminated"
      [] e = [name |-> "SyntaxError", message |-> "Unexpected end of JSON input"]
            -> "SyntaxError: Unexpected end of JSON input"

\* Call i rejected, or reading its response did.
Threw(i) == calls[i].state = "threw" \/ calls[i].read = "threw"

\* C9: when an outbound call or the reading of its response throws, on
\* the primary or the fallback attempt, the request is answered 500 with
\* {error: "Server error", detail: String(e)}; the exception does not leave
\* the handler and no call is issued after the one that threw.
C9_ThrowIs500 ==
    \A i \in 1..Len(calls) :
        Threw(i)
        => /\ i = Len(calls)
           /\ Done
           /\ ~escaped
           /\ res.status = 500
           /\ res.error = "Server error"
           /\ res.hasDetail
           /\ res.detail = Stringified(calls[i].e)
           /\ ~res.hasArticles

\* C9 happens: the fallback fetch rejected with an error without message.
C9_Witness ==
    /\ Done
    /\ Len(calls) = 2
    /\ calls[2].state = "threw"
    /\ calls[2].e = [name |-> "AbortError", message |-> ""]
    /\ res.status = 500
    /\ res.detail = "AbortError"

\* C3: when the upstream call succeeded and the extracted text is not valid
\* JSON, or is valid JSON of another shape than {articles:[...]}, the
\* answer is 200 with the body {"articles":[]}.
C3_MalformedOutputIsEmptyList ==
    (Done /\ result.state = "ok" /\ result.text.s \in Literals)
    => /\ res.status = 200
       /\ res.hasArticles
       /\ res.articles = <<>>
       /\ res.error = "" /\ ~res.hasDetail

\* A text field is present: it is there and not the empty string.
Present(t) == t.def /\ t.s # ""

\* The text of the first content entry of the last output item, if any.
LastItemText ==
    IF data.isNull \/ ~data.output.def \/ data.output.items = <<>>
    THEN NoText
    ELSE LET last == data.output.items[Len(data.output.items)]
         IN  IF ~last.content.def \/ last.content.items = <<>>
             THEN NoText
             ELSE last.content.items[1].text

\* C10: the extracted text of a successful upstream response body is its
\* top-level output_text if present; otherwise the text of the first
\* content entry of the last output item; and "{}" if neither is present.
C10_ExtractedText ==
    (Done /\ result.state = "ok")
    => result.text =
         IF ~data.isNull /\ Present(data.output_text) THEN data.output_text
         ELSE IF Present(LastItemText) THEN LastItemText
         ELSE JsText("{}")

\* The entry is a non-null object with a string url starting with "http".
ValidEntry(a) ==
    /\ a.t = "object"
    /\ a.url.t = "string"
    /\ Len(a.url.s) >= 4
    /\ SubSeq(a.url.s, 1, 4) = "http"

\* The articles array of the text the upstream call returned.
UpstreamArticles == result.text.items
ValidIndexes ==
    {j \in 1..Len(UpstreamArticles) : ValidEntry(UpstreamArticles[j])}

\* C7: the articles of the 200 response are the first 50 (or all, if
\* fewer) valid entries of the upstream array, in their original order,
\* each as {url, title} with the url unchanged and a missing or non-string
\* title replaced by ""; so there are never more than 50 and every url
\* starts with "http".
C7_FirstFiftyValidInOrder ==
    (Done /\ result.state = "ok" /\ result.text.s = ArticlesDoc)
    => /\ res.status = 200
       /\ res.hasArticles
       /\ Len(res.articles) =
            IF Cardinality(ValidIndexes) < 50
            THEN Cardinality(ValidIndexes) ELSE 50
       /\ \A j \in ValidIndexes :
            LET rank == Cardinality({k \in ValidIndexes : k <= j})
                a == UpstreamArticles[j]
            IN  rank <= 50
                => res.articles[rank] =
                     [url |-> a.url.s,
                      title |-> IF a.title.t = "string" THEN a.title.s ELSE ""]
       /\ \A i \in 1..Len(res.articles) :
            SubSeq(res.articles[i].url, 1, 4) = "http"

\* C7 happens: an array of 60 entries with more than 50 valid ones and
\* invalid ones among them was cut to 50.
C7_Witness ==
    /\ Done
    /\ Len(UpstreamArticles) = 60
    /\ Cardinality(ValidIndexes) > 50
    /\ \E j \in 1..50 : j \notin ValidIndexes
    /\ \E j \in ValidIndexes : UpstreamArticles[j].title.t # "string"
    /\ Len(res.articles) = 50

=============================================================================
